---- MODULE Spec2Model ----
(***************************************************************************)
(* Model of the XACRO compiler aip_urdf_compiler/scripts/compile_urdf.py:  *)
(* the Transformation entity, the Calibration model, the type classifier,  *)
(* the dispatch table link_dicts and the orchestrator main().              *)
(*                                                                         *)
(* Python strings are TLA+ strings; a YAML mapping is a sequence of        *)
(* key/value pairs in declaration order (a Python dict iterates in         *)
(* insertion order).  The numeric values of the six offsets are never read *)
(* by the compiler, only their presence is, so a child entry records which *)
(* offset fields it carries.                                               *)
(***************************************************************************)
EXTENDS Integers, Sequences, FiniteSets, TLC

----------------------------------------------------------------------------
(* Python str operations                                                   *)

UpperAlphabet == "ABCDEFGHIJKLMNOPQRSTUVWXYZ"

LowerAlphabet == "abcdefghijklmnopqrstuvwxyz"

\* the lower-case letter of every upper-case letter
LowerOf ==
    [c \in { SubSeq(UpperAlphabet, k, k) : k \in 1..Len(UpperAlphabet) } |->
        LET k == CHOOSE k \in 1..Len(UpperAlphabet) : SubSeq(UpperAlphabet, k, k) = c
        IN  SubSeq(LowerAlphabet, k, k)]

\* one character of str.lower()
LowerChar(c) == IF c \in DOMAIN LowerOf THEN LowerOf[c] ELSE c

RECURSIVE Lower(_)
\* str.lower()
Lower(s) ==
    IF Len(s) = 0 THEN ""
    ELSE LowerChar(SubSeq(s, 1, 1)) \o Lower(SubSeq(s, 2, Len(s)))

\* the Python expression `m in s` on strings
Contains(s, m) ==
    \E k \in 1..(Len(s) - Len(m) + 1) : SubSeq(s, k, k + Len(m) - 1) = m

RECURSIVE Replace(_, _)
\* str.replace(old, ""): every non-overlapping occurrence, leftmost first
Replace(s, old) ==
    IF Len(s) < Len(old) THEN s
    ELSE IF SubSeq(s, 1, Len(old)) = old
         THEN Replace(SubSeq(s, Len(old) + 1, Len(s)), old)
         ELSE SubSeq(s, 1, 1) \o Replace(SubSeq(s, 2, Len(s)), old)

----------------------------------------------------------------------------
(* LinkType and the type classifier                                        *)

\* the members of the enum, in definition order
LinkType ==
    << "CAMERA", "IMU", "LIVOX", "PANDAR_40P", "PANDAR_OT128", "PANDAR_XT32",
       "PANDAR_QT", "PANDAR_QT128", "VELODYNE16", "VLS128", "RADAR", "GNSS",
       "JOINT_UNITS" >>

\* LinkType.<member>.value
LinkTypeValue(member) ==
    CASE member = "CAMERA"       -> "monocular_camera"
      [] member = "IMU"          -> "imu"
      [] member = "LIVOX"        -> "livox_horizon"
      [] member = "PANDAR_40P"   -> "pandar_40p"
      [] member = "PANDAR_OT128" -> "pandar_ot128"
      [] member = "PANDAR_XT32"  -> "pandar_xt32"
      [] member = "PANDAR_QT"    -> "pandar_qt"
      [] member = "PANDAR_QT128" -> "pandar_qt128"
      [] member = "VELODYNE16"   -> "velodyne_16"
      [] member = "VLS128"       -> "velodyne_128"
      [] member = "RADAR"        -> "radar"
      [] member = "GNSS"         -> "gnss"
      [] member = "JOINT_UNITS"  -> "units"

determine_link_type(link_name) ==
    IF Contains(link_name, "cam") THEN "CAMERA"
    ELSE IF Contains(link_name, "imu") THEN "IMU"
    ELSE IF Contains(link_name, "gnss") THEN "GNSS"
    ELSE IF Contains(link_name, "livox") THEN "LIVOX"
    ELSE IF Contains(link_name, "velodyne")
         THEN (IF Contains(link_name, "top") THEN "VLS128" ELSE "VELODYNE16")
    ELSE IF Contains(link_name, "radar") \/ Contains(link_name, "ars") THEN "RADAR"
    ELSE IF Contains(link_name, "pandar_40p") THEN "PANDAR_40P"
    ELSE IF Contains(link_name, "pandar_qt") THEN "PANDAR_QT"
    ELSE IF Contains(link_name, "hesai_top") THEN "PANDAR_OT128"
    ELSE IF Contains(link_name, "hesai_front") THEN "PANDAR_XT32"
    ELSE IF Contains(link_name, "hesai") THEN "PANDAR_XT32"
    ELSE "JOINT_UNITS"

\* type_enum.value.lower() of every member, by position
LinkTypeValueLower ==
    [k \in 1..Len(LinkType) |-> Lower(LinkTypeValue(LinkType[k]))]

\* obtain_link_type comparing the type string as written, without lower()
obtain_link_type_case_sensitive(link) ==
    LET matches == { k \in 1..Len(LinkType) : link.type = LinkTypeValue(LinkType[k]) }
    IN  IF Len(link.type) > 0 /\ matches # {}
        THEN LinkType[CHOOSE k \in matches : \A j \in matches : k <= j]
        ELSE determine_link_type(link.child_frame)

\* lines 202-211: the first enum member, in definition order, whose value
\* equals the type string case-insensitively, else the guess from the
\* child-frame name
obtain_link_type(link) ==
    LET link_type_lower == Lower(link.type)
        matches == { k \in 1..Len(LinkType) : link_type_lower = LinkTypeValueLower[k] }
    IN  IF Len(link.type) > 0 /\ matches # {}
        THEN LinkType[CHOOSE k \in matches : \A j \in matches : k <= j]
        ELSE determine_link_type(link.child_frame)

----------------------------------------------------------------------------
(* Transformation                                                          *)

\* the six required keys, in the order __init__ reads them
OffsetFields == << "x", "y", "z", "roll", "pitch", "yaw" >>

AllOffsets == { OffsetFields[k] : k \in 1..Len(OffsetFields) }

\* the first required key that the entry lacks: the key of the KeyError
FirstMissing(has) ==
    OffsetFields[CHOOSE k \in 1..Len(OffsetFields) :
                    /\ OffsetFields[k] \notin has
                    /\ \A j \in 1..(k - 1) : OffsetFields[j] \in has]

\* self.type after lines 81-89
TransformationType(transformation, name) ==
    IF Len(transformation.type) = 0
    THEN LinkTypeValue(determine_link_type(name))
    ELSE transformation.type

\* self.name, line 83
TransformationName(child_frame) ==
    Replace(Replace(child_frame, "_base_link"), "_link")

\* self.frame_id after lines 91-104
TransformationFrameId(transformation, type, name, child_frame) ==
    IF Len(transformation.frame_id) = 0
    THEN IF \/ Contains(type, "pandar")
            \/ Contains(type, "livox")
            \/ Contains(type, "camera")
            \/ Contains(Lower(type), "vls")
            \/ Contains(Lower(type), "vlp")
         THEN name
         ELSE child_frame
    ELSE transformation.frame_id

\* Transformation.__init__ reading the offsets with a default, so that an
\* absent one raises nothing
Transformation_defaults_missing(transformation, base_frame, child_frame) ==
    LET name == TransformationName(child_frame)
        type == TransformationType(transformation, name)
    IN  [ok |-> TRUE,
         base_frame |-> base_frame,
         child_frame |-> child_frame,
         name |-> name,
         type |-> type,
         frame_id |-> TransformationFrameId(transformation, type, name, child_frame)]

\* Transformation.__init__: a Transformation, or the KeyError it re-raises.
\* transformation is [has |-> the offset keys present, type, frame_id], an
\* absent "type"/"frame_id" being "" as transformation.get(.., "") makes it.
Transformation(transformation, base_frame, child_frame) ==
    IF ~(AllOffsets \subseteq transformation.has)
    THEN [ok |-> FALSE, err |-> "KeyError", key |-> FirstMissing(transformation.has)]
    ELSE LET name == TransformationName(child_frame)
             type == TransformationType(transformation, name)
         IN  [ok |-> TRUE,
              base_frame |-> base_frame,
              child_frame |-> child_frame,
              name |-> name,
              type |-> type,
              frame_id |-> TransformationFrameId(transformation, type, name, child_frame)]

----------------------------------------------------------------------------
(* Calibration and load_yaml                                               *)

\* A raw YAML mapping is a sequence of [key, value] pairs.  A key is
\* [isstr, s]: whether it is a Python str, and its text.  The value under a
\* top-level key is [ismap, items]: whether it is a dict, and its pairs.

RECURSIVE CalibrationTransforms(_, _)
\* the loop of lines 171-179 over the child entries still to be read: the
\* Transformations in declaration order, or the first error raised
CalibrationTransforms(items, base_frame) ==
    IF Len(items) = 0 THEN [ok |-> TRUE, transforms |-> << >>]
    ELSE IF ~Head(items).key.isstr
         THEN [ok |-> FALSE, err |-> "AssertionError", key |-> ""]
    ELSE LET t == Transformation(Head(items).value, base_frame, Head(items).key.s)
         IN  IF ~t.ok THEN t
             ELSE LET rest == CalibrationTransforms(Tail(items), base_frame)
                  IN  IF ~rest.ok THEN rest
                      ELSE [ok |-> TRUE, transforms |-> << t >> \o rest.transforms]

\* Calibration.__init__ without the assertion of line 159: the first
\* top-level key is taken as the base frame
Calibration_first_key_wins(calibration) ==
    IF Len(calibration) = 0
    THEN [ok |-> FALSE, err |-> "IndexError", key |-> ""]
    ELSE IF ~calibration[1].key.isstr
    THEN [ok |-> FALSE, err |-> "AssertionError", key |-> ""]
    ELSE IF ~calibration[1].value.ismap
    THEN [ok |-> FALSE, err |-> "AssertionError", key |-> ""]
    ELSE LET base_frame == calibration[1].key.s
             r == CalibrationTransforms(calibration[1].value.items, base_frame)
         IN  IF ~r.ok THEN r
             ELSE [ok |-> TRUE, base_frame |-> base_frame, transforms |-> r.transforms]

\* Calibration.__init__: a Calibration, or the error it raises
Calibration(calibration) ==
    IF Len(calibration) # 1
    THEN [ok |-> FALSE, err |-> "AssertionError", key |-> ""]
    ELSE IF ~calibration[1].key.isstr
    THEN [ok |-> FALSE, err |-> "AssertionError", key |-> ""]
    ELSE IF ~calibration[1].value.ismap
    THEN [ok |-> FALSE, err |-> "AssertionError", key |-> ""]
    ELSE LET base_frame == calibration[1].key.s
             r == CalibrationTransforms(calibration[1].value.items, base_frame)
         IN  IF ~r.ok THEN r
             ELSE [ok |-> TRUE, base_frame |-> base_frame, transforms |-> r.transforms]

\* load_yaml on a file [kind, content]: kind is "absent" (no such file),
\* "malformed" (not YAML), "empty" (parses to None), "nondict" (parses to a
\* list or scalar) or "dict" (parses to the mapping content)
load_yaml(file) ==
    CASE file.kind = "absent"    -> [ok |-> FALSE, err |-> "FileNotFoundError"]
      [] file.kind = "malformed" -> [ok |-> FALSE, err |-> "YAMLError"]
      [] file.kind = "empty"     -> [ok |-> FALSE, err |-> "RuntimeError"]
      [] file.kind = "nondict"   -> [ok |-> FALSE, err |-> "RuntimeError"]
      [] file.kind = "dict"      -> [ok |-> TRUE, content |-> file.content]

----------------------------------------------------------------------------
(* String generation and the dispatch table                                *)

NL == "\n"

Q == "\""

\* a lookup keyed by the suffix-stripped name in place of the raw child frame
serialize_single_by_name(transform, key) ==
    "${calibration['" \o transform.base_frame \o "']['" \o transform.name
        \o "']['" \o key \o "']}"

\* Transformation.serialize_single
serialize_single(transform, key) ==
    "${calibration['" \o transform.base_frame \o "']['" \o transform.child_frame
        \o "']['" \o key \o "']}"

\* BASE_STRING.format(...)
BASE_STRING(type, child_frame, base_frame, x, y, z, roll, pitch, yaw, extra) ==
    "<xacro:" \o type \o NL
    \o "        name=" \o Q \o child_frame \o Q \o NL
    \o "        parent=" \o Q \o base_frame \o Q \o NL
    \o "        x=" \o Q \o x \o Q \o NL
    \o "        y=" \o Q \o y \o Q \o NL
    \o "        z=" \o Q \o z \o Q \o NL
    \o "        roll=" \o Q \o roll \o Q \o NL
    \o "        pitch=" \o Q \o pitch \o Q \o NL
    \o "        yaw=" \o Q \o yaw \o Q \o NL
    \o "        " \o extra \o NL
    \o "    />"

\* VLD_STRING.format(...)
VLD_STRING(type, child_frame, base_frame, x, y, z, roll, pitch, yaw) ==
    "<xacro:" \o type \o " parent=" \o Q \o base_frame \o Q
    \o " name=" \o Q \o child_frame \o Q
    \o " topic=" \o Q \o "/points_raw" \o Q \o " hz=" \o Q \o "10" \o Q
    \o " samples=" \o Q \o "220" \o Q \o " gpu=" \o Q \o "$(arg gpu)" \o Q \o ">" \o NL
    \o "    <origin" \o NL
    \o "        xyz=" \o Q \o x \o NL
    \o "            " \o y \o NL
    \o "            " \o z \o Q \o NL
    \o "        rpy=" \o Q \o roll \o NL
    \o "            " \o pitch \o NL
    \o "            " \o yaw \o Q \o NL
    \o "    />" \o NL
    \o "    </xacro:" \o type \o ">"

base_string_extra(macro_type) ==
    IF macro_type = "monocular_camera_macro"
    THEN "fps=" \o Q \o "30" \o Q \o NL
         \o "        width=" \o Q \o "800" \o Q \o NL
         \o "        height=" \o Q \o "400" \o Q \o NL
         \o "        namespace=" \o Q \o Q \o NL
         \o "        fov=" \o Q \o "1.3" \o Q
    ELSE IF macro_type = "imu_macro"
    THEN "fps=" \o Q \o "100" \o Q \o NL
         \o "        namespace=" \o Q \o Q
    ELSE ""

base_string_func(macro_type, transform) ==
    BASE_STRING(macro_type, transform.frame_id, transform.base_frame,
                serialize_single(transform, "x"), serialize_single(transform, "y"),
                serialize_single(transform, "z"), serialize_single(transform, "roll"),
                serialize_single(transform, "pitch"), serialize_single(transform, "yaw"),
                base_string_extra(macro_type))

VLP16_func(transform) ==
    VLD_STRING("VLP-16", transform.frame_id, transform.base_frame,
               serialize_single(transform, "x"), serialize_single(transform, "y"),
               serialize_single(transform, "z"), serialize_single(transform, "roll"),
               serialize_single(transform, "pitch"), serialize_single(transform, "yaw"))

VLS128_func(transform) ==
    VLD_STRING("VLS-128", transform.frame_id, transform.base_frame,
               serialize_single(transform, "x"), serialize_single(transform, "y"),
               serialize_single(transform, "z"), serialize_single(transform, "roll"),
               serialize_single(transform, "pitch"), serialize_single(transform, "yaw"))

\* a generation strategy stored in the table: the function, and for
\* functools.partial(base_string_func, macro_type) the argument bound to it
Partial(macro_type) == [func |-> "base_string_func", macro_type |-> macro_type]

Function(func) == [func |-> func, macro_type |-> ""]

\* the entry of a category that has a generation strategy
LinkDictsEntry(file, strategy) == [including_file |-> file, string_api |-> strategy]

\* the dict link_dicts is bound to when the module is loaded, lines 341-393
link_dicts_literal ==
    [ link_type \in { LinkType[n] : n \in 1..Len(LinkType) } |->
        CASE link_type = "CAMERA" ->
               LinkDictsEntry("$(find camera_description)/urdf/monocular_camera.xacro",
                              Partial("monocular_camera_macro"))
          [] link_type = "IMU" ->
               LinkDictsEntry("$(find imu_description)/urdf/imu.xacro", Partial("imu_macro"))
          [] link_type = "GNSS" ->
               LinkDictsEntry("$(find imu_description)/urdf/imu.xacro", Partial("imu_macro"))
          [] link_type = "VELODYNE16" ->
               LinkDictsEntry("$(find velodyne_description)/urdf/VLP-16.urdf.xacro",
                              Function("VLP16_func"))
          [] link_type = "VLS128" ->
               LinkDictsEntry("$(find vls_description)/urdf/VLS-128.urdf.xacro",
                              Function("VLS128_func"))
          [] link_type = "PANDAR_40P" ->
               LinkDictsEntry("$(find pandar_description)/urdf/pandar_40p.xacro",
                              Partial("Pandar40P"))
          [] link_type = "PANDAR_OT128" ->
               LinkDictsEntry("$(find pandar_description)/urdf/pandar_ot128.xacro",
                              Partial("PandarOT-128"))
          [] link_type = "PANDAR_XT32" ->
               LinkDictsEntry("$(find pandar_description)/urdf/pandar_xt32.xacro",
                              Partial("PandarXT-32"))
          [] link_type = "PANDAR_QT" ->
               LinkDictsEntry("$(find pandar_description)/urdf/pandar_qt.xacro",
                              Partial("PandarQT"))
          [] link_type = "PANDAR_QT128" ->
               LinkDictsEntry("$(find pandar_description)/urdf/pandar_qt128.xacro",
                              Partial("PandarQT-128"))
          [] link_type = "LIVOX" ->
               LinkDictsEntry("$(find livox_description)/urdf/livox_horizon.xacro",
                              Partial("livox_horizon_macro"))
          [] link_type = "RADAR" ->
               LinkDictsEntry("$(find radar_description)/urdf/radar.xacro",
                              Partial("radar_macro"))
          [] link_type = "JOINT_UNITS" ->
               [including_file |-> "{filename}.xacro"] ]

\* calling a generation strategy of the table on a transform
Call(strategy, transform) ==
    CASE strategy.func = "base_string_func" -> base_string_func(strategy.macro_type, transform)
      [] strategy.func = "VLP16_func"       -> VLP16_func(transform)
      [] strategy.func = "VLS128_func"      -> VLS128_func(transform)

----------------------------------------------------------------------------
(* The orchestrator main(): state                                          *)

VARIABLES
    link_dicts,             \* the dispatch table, a module-level dict
    template_directory,     \* which of the two templates exist
    calibration_directory,  \* [main |-> file, units |-> [file name -> file]]
    pc,                     \* the phase main() is about to run
    error,                  \* the exception that ended the run, "" if none
    calib,                  \* Calibration of sensors_calibration.yaml
    render_meta_data,       \* the aggregate rendering context
    include_text,           \* the accumulated include set
    i,                      \* index of the joint unit being processed
    sensor_unit_calib,      \* Calibration of the current unit
    sensor_unit_render_meta_data,   \* the current unit's rendering context
    written,                \* the artifacts written by this run, in order
    loads,                  \* the paths handed to load_yaml by this run, in order
    run,                    \* 1 in the first invocation, 2 in the second
    prev,                   \* what the first invocation ended with
    e_transformation,       \* Transformation under test: the raw entry
    e_child_frame,          \*   its child-frame key
    e_pc,                   \*   "input", "constructed", "classified" or "generated"
    e_transform,            \*   the Transformation built
    e_link_type,            \*   its LinkType
    e_sensor_item,          \*   the macro invocation generated for it
    c_calibration,          \* Calibration under test: the raw mapping
    c_pc,                   \*   "input" or "constructed"
    c_result                \*   the Calibration built

main_vars ==
    << link_dicts, template_directory, calibration_directory, pc, error, calib,
       render_meta_data, include_text, i, sensor_unit_calib,
       sensor_unit_render_meta_data, written, loads, run, prev >>

entity_vars ==
    << e_transformation, e_child_frame, e_pc, e_transform, e_link_type,
       e_sensor_item >>

calibration_vars == << c_calibration, c_pc, c_result >>

vars == << main_vars, entity_vars, calibration_vars >>

\* link_dicts[link_type]["including_file"]
including_file(link_type) == link_dicts[link_type].including_file

\* whether link_dicts[link_type] has the key "string_api"
has_string_api(link_type) == "string_api" \in DOMAIN link_dicts[link_type]

\* link_dicts[link_type]["string_api"](transform)
string_api(link_type, transform) == Call(link_dicts[link_type].string_api, transform)

\* the include-reference template appended as it stands in the table
unit_including_file_unformatted(name) == including_file("JOINT_UNITS")

\* "{filename}.xacro".format(filename=name), line 428
unit_including_file(name) ==
    name \o Replace(including_file("JOINT_UNITS"), "{filename}")

\* a name not bound yet
Unset == [ok |-> FALSE, err |-> "unset", key |-> ""]

project_name == "aip_xx1_description"

\* lines 413-419
InitialRenderMetaData ==
    [default_config_path |-> "$(find " \o project_name \o ")/config",
     sensor_calibration_yaml_path |-> "$(arg config_dir)/sensors_calibration.yaml",
     sensor_units_includes |-> << >>,
     sensor_units |-> << >>,
     isolated_sensors_includes |-> << >>,
     isolated_sensors |-> << >>]

\* list(a_set): Python iterates a set of str in hash order, and str hashes are
\* salted per process, so any order of the members can come out
ListOfSet(S) ==
    { order \in [1..Cardinality(S) -> S] :
        \A a, b \in 1..Cardinality(S) : a # b => order[a] # order[b] }

RECURSIVE ClassifyMain_adds_unit_include(_, _)
\* the main loop adding the include before it looks at the category, as the
\* unit loop of line 474 does
ClassifyMain_adds_unit_include(transforms, acc) ==
    IF Len(transforms) = 0 THEN acc
    ELSE LET transform == Head(transforms)
             link_type == obtain_link_type(transform)
             added == acc.include_text \cup {including_file(link_type)}
         IN  IF link_type = "JOINT_UNITS"
             THEN ClassifyMain_adds_unit_include(Tail(transforms),
                      [acc EXCEPT
                         !.include_text = added,
                         !.sensor_units_includes =
                             Append(@, unit_including_file(transform.name)),
                         !.sensor_units =
                             Append(@, [base_frame |-> transform.base_frame,
                                        child_frame |-> transform.child_frame,
                                        macro_name |-> transform.name \o "_macro",
                                        name |-> transform.name])])
             ELSE ClassifyMain_adds_unit_include(Tail(transforms),
                      [acc EXCEPT
                         !.include_text = added,
                         !.sensor_items = Append(@, string_api(link_type, transform))])

RECURSIVE ClassifyMain(_, _)
\* the loop of lines 423-441 over the transforms still to be visited
ClassifyMain(transforms, acc) ==
    IF Len(transforms) = 0 THEN acc
    ELSE LET transform == Head(transforms)
             link_type == obtain_link_type(transform)
         IN  IF link_type = "JOINT_UNITS"
             THEN ClassifyMain(Tail(transforms),
                      [acc EXCEPT
                         !.sensor_units_includes =
                             Append(@, unit_including_file(transform.name)),
                         !.sensor_units =
                             Append(@, [base_frame |-> transform.base_frame,
                                        child_frame |-> transform.child_frame,
                                        macro_name |-> transform.name \o "_macro",
                                        name |-> transform.name])])
             ELSE ClassifyMain(Tail(transforms),
                      [acc EXCEPT
                         !.include_text = @ \cup {including_file(link_type)},
                         !.sensor_items = Append(@, string_api(link_type, transform))])

RECURSIVE ClassifyUnitLoop_skips_joint_units(_, _)
\* the unit loop passing over a nested joint unit instead of dispatching it
ClassifyUnitLoop_skips_joint_units(transforms, acc) ==
    IF Len(transforms) = 0 THEN acc
    ELSE LET transform == Head(transforms)
             link_type == obtain_link_type(transform)
             added == acc.include_text \cup {including_file(link_type)}
         IN  IF ~has_string_api(link_type)
             THEN ClassifyUnitLoop_skips_joint_units(Tail(transforms),
                      [acc EXCEPT !.include_text = added])
             ELSE ClassifyUnitLoop_skips_joint_units(Tail(transforms),
                      [acc EXCEPT
                         !.include_text = added,
                         !.sensor_items = Append(@, string_api(link_type, transform))])

RECURSIVE ClassifyUnitLoop(_, _)
\* the loop of lines 472-476 over the unit's transforms still to be visited;
\* link_dicts[JOINT_UNITS] has no "string_api": KeyError, after the include
\* of line 474 was added
ClassifyUnitLoop(transforms, acc) ==
    IF Len(transforms) = 0 THEN acc
    ELSE LET transform == Head(transforms)
             link_type == obtain_link_type(transform)
             added == acc.include_text \cup {including_file(link_type)}
         IN  IF ~has_string_api(link_type)
             THEN [acc EXCEPT !.ok = FALSE, !.include_text = added]
             ELSE ClassifyUnitLoop(Tail(transforms),
                      [acc EXCEPT
                         !.include_text = added,
                         !.sensor_items = Append(@, string_api(link_type, transform))])

\* the unit's calibration path built from the raw child frame
sensor_unit_calib_path_from_child_frame(sensor_unit) ==
    sensor_unit.child_frame \o "_calibration.yaml"

\* the path of line 459-461, relative to the calibration directory
sensor_unit_calib_path(sensor_unit) == sensor_unit.name \o "_calibration.yaml"

\* the file a path of the calibration directory names
FileAt(path) ==
    IF path = "sensors_calibration.yaml" THEN calibration_directory.main
    ELSE IF path \in DOMAIN calibration_directory.units
         THEN calibration_directory.units[path]
         ELSE [kind |-> "absent", content |-> << >>]

Fail(exception) ==
    /\ pc' = "Failed"
    /\ error' = exception

----------------------------------------------------------------------------
(* Inputs                                                                  *)

\* the most child frames a calibration of the model declares
MaxChildren == 2

StrKey(s) == [isstr |-> TRUE, s |-> s]

\* a key that is not a str, e.g. the YAML integer 7
IntKey(s) == [isstr |-> FALSE, s |-> s]

Entry(type, frame_id, has) == [has |-> has, type |-> type, frame_id |-> frame_id]

Pair(key, value) == [key |-> key, value |-> value]

Mapping(items) == [ismap |-> TRUE, items |-> items]

NotAMapping == [ismap |-> FALSE, items |-> << >>]

\* the sequences without repetition of at most n members of S
SeqsUpTo(S, n) ==
    UNION { { q \in [1..k -> S] : \A a, b \in 1..k : a # b => q[a] # q[b] } : k \in 0..n }

AbsentFile == [kind |-> "absent", content |-> << >>]

DictFile(content) == [kind |-> "dict", content |-> content]

NonDictFiles ==
    { [kind |-> k, content |-> << >>] : k \in {"absent", "malformed", "empty", "nondict"} }

\* child entries of the main calibration: three sensors (IMU and GNSS share
\* an include), one entry without "yaw", and three joint units, two of which
\* derive the same name
MainPool ==
    { Pair(StrKey("camera_front_base_link"), Entry("monocular_camera", "", AllOffsets)),
      Pair(StrKey("imu_link"), Entry("", "", AllOffsets)),
      Pair(StrKey("gnss_link"), Entry("", "", AllOffsets)),
      Pair(StrKey("radar_front"), Entry("radar", "", AllOffsets \ {"yaw"})),
      Pair(StrKey("unknown_mount"), Entry("", "", AllOffsets)),
      Pair(StrKey("top_unit_link"), Entry("", "", AllOffsets)),
      Pair(StrKey("top_unit_base_link"), Entry("", "", AllOffsets)) }

\* sensors_calibration.yaml: unreadable, or a mapping that is empty, has two
\* base frames, or has the base frame base_link with up to MaxChildren children
MainFiles ==
    NonDictFiles
    \cup { DictFile(<< >>),
           DictFile(<< Pair(StrKey("base_link"), Mapping(<< >>)),
                       Pair(StrKey("odom"), Mapping(<< >>)) >>) }
    \cup { DictFile(<< Pair(StrKey("base_link"), Mapping(items)) >>) :
             items \in SeqsUpTo(MainPool, MaxChildren) }

UnitChild(child_frame, type, has) == Pair(StrKey(child_frame), Entry(type, "", has))

\* a unit's calibration file: absent, malformed, or one of five mappings, the
\* last two with an entry lacking "x" and with a nested joint unit
UnitFiles ==
    { AbsentFile,
      [kind |-> "malformed", content |-> << >>],
      DictFile(<< Pair(StrKey("sensor_kit_base_link"), Mapping(
          << UnitChild("livox_front_link", "livox_horizon", AllOffsets) >>)) >>),
      DictFile(<< Pair(StrKey("sensor_kit_base_link"), Mapping(
          << UnitChild("camera0/camera_link", "", AllOffsets),
             UnitChild("pandar_40p_left_base_link", "", AllOffsets) >>)) >>),
      DictFile(<< Pair(StrKey("sensor_kit_base_link"), Mapping(
          << UnitChild("camera0/camera_link", "", AllOffsets),
             UnitChild("gnss_link", "", AllOffsets \ {"x"}) >>)) >>),
      DictFile(<< Pair(StrKey("sensor_kit_base_link"), Mapping(
          << UnitChild("livox_front_link", "livox_horizon", AllOffsets),
             UnitChild("inner_bracket", "", AllOffsets),
             UnitChild("imu_link", "", AllOffsets) >>)) >>) }

UnitFileNames ==
    { "unknown_mount_calibration.yaml", "top_unit_calibration.yaml" }

\* the child-frame keys a file declares
ChildKeys(file) ==
    IF file.kind = "dict" /\ Len(file.content) = 1 /\ file.content[1].value.ismap
    THEN { file.content[1].value.items[k].key.s :
             k \in 1..Len(file.content[1].value.items) }
    ELSE {}

\* the unit files that the child frames of a main calibration name
ReferencedUnitFiles(main) ==
    { f \in UnitFileNames :
        \E key \in ChildKeys(main) : f = TransformationName(key) \o "_calibration.yaml" }

\* a calibration directory holds a unit file only for a frame that the main
\* calibration declares
CalibrationDirectories ==
    UNION { { [main |-> main,
               units |-> [f \in UnitFileNames |->
                            IF f \in DOMAIN present THEN present[f] ELSE AbsentFile]] :
                present \in [ReferencedUnitFiles(main) -> UnitFiles] } :
            main \in MainFiles }

TemplateDirectories ==
    { {"sensors.xacro.template", "sensor_unit.xacro.template"},
      {"sensor_unit.xacro.template"},
      {"sensors.xacro.template"} }

----------------------------------------------------------------------------
(* The orchestrator main(): phases                                         *)

IdleEntity ==
    /\ e_transformation = Entry("", "", {})
    /\ e_child_frame = ""
    /\ e_pc = "idle"
    /\ e_transform = Unset
    /\ e_link_type = ""
    /\ e_sensor_item = ""

IdleCalibration ==
    /\ c_calibration = AbsentFile
    /\ c_pc = "idle"
    /\ c_result = Unset

\* the state in which main() is entered
StartRun ==
    /\ pc = "LoadMainCalibration"
    /\ error = ""
    /\ calib = Unset
    /\ render_meta_data = InitialRenderMetaData
    /\ include_text = {}
    /\ i = 0
    /\ sensor_unit_calib = Unset
    /\ sensor_unit_render_meta_data = Unset
    /\ written = << >>
    /\ loads = << >>

Init ==
    /\ link_dicts = link_dicts_literal
    /\ template_directory \in TemplateDirectories
    /\ calibration_directory \in CalibrationDirectories
    /\ StartRun
    /\ run = 1
    /\ prev = Unset
    /\ IdleEntity
    /\ IdleCalibration

\* lines 402-411: open the aggregate template, load and parse the main
\* calibration
LoadMainCalibration ==
    /\ pc = "LoadMainCalibration"
    /\ LET have_template == "sensors.xacro.template" \in template_directory
           path == "sensors_calibration.yaml"
           calib_yaml == load_yaml(FileAt(path))
           c == IF calib_yaml.ok THEN Calibration(calib_yaml.content) ELSE Unset
       IN  /\ loads' = IF have_template THEN Append(loads, path) ELSE loads
           /\ calib' = IF have_template /\ calib_yaml.ok /\ c.ok THEN c ELSE calib
           /\ IF ~have_template THEN Fail("FileNotFoundError")
              ELSE IF ~calib_yaml.ok THEN Fail(calib_yaml.err)
              ELSE IF ~c.ok THEN Fail(c.err)
              ELSE pc' = "ClassifyAndPartition" /\ error' = error
    /\ UNCHANGED << link_dicts, template_directory,
                    calibration_directory, render_meta_data,
                    include_text, i, sensor_unit_calib, sensor_unit_render_meta_data,
                    written, run, prev, entity_vars, calibration_vars >>

\* the main loop storing the formatted include reference of a joint unit back
\* into the table entry it was formatted from
ClassifyAndPartition_formats_in_place ==
    /\ pc = "ClassifyAndPartition"
    /\ LET acc == ClassifyMain(calib.transforms,
                      [sensor_units_includes |-> << >>, sensor_units |-> << >>,
                       include_text |-> {}, sensor_items |-> << >>])
       IN  /\ include_text' = acc.include_text
           /\ link_dicts' =
                IF Len(acc.sensor_units_includes) = 0 THEN link_dicts
                ELSE [link_dicts EXCEPT !["JOINT_UNITS"].including_file =
                         acc.sensor_units_includes[Len(acc.sensor_units_includes)]]
           /\ \E order \in ListOfSet(acc.include_text) :
                render_meta_data' =
                    [InitialRenderMetaData EXCEPT
                       !.sensor_units_includes = acc.sensor_units_includes,
                       !.sensor_units = acc.sensor_units,
                       !.isolated_sensors_includes = order,
                       !.isolated_sensors = acc.sensor_items]
    /\ pc' = "RenderAggregate"
    /\ UNCHANGED << template_directory, calibration_directory, error, calib, i,
                    sensor_unit_calib, sensor_unit_render_meta_data, written, loads,
                    run, prev, entity_vars, calibration_vars >>

\* lines 413-444: classify every transform of the main calibration and fill
\* the aggregate rendering context
ClassifyAndPartition ==
    /\ pc = "ClassifyAndPartition"
    /\ LET acc == ClassifyMain(calib.transforms,
                      [sensor_units_includes |-> << >>, sensor_units |-> << >>,
                       include_text |-> {}, sensor_items |-> << >>])
       IN  /\ include_text' = acc.include_text
           /\ \E order \in ListOfSet(acc.include_text) :
                render_meta_data' =
                    [InitialRenderMetaData EXCEPT
                       !.sensor_units_includes = acc.sensor_units_includes,
                       !.sensor_units = acc.sensor_units,
                       !.isolated_sensors_includes = order,
                       !.isolated_sensors = acc.sensor_items]
    /\ pc' = "RenderAggregate"
    /\ UNCHANGED << link_dicts, template_directory,
                    calibration_directory, error, calib, i,
                    sensor_unit_calib, sensor_unit_render_meta_data, written, loads,
                    run, prev, entity_vars, calibration_vars >>

\* lines 446-457: render and write sensors.xacro, open the unit template,
\* enter the loop over the joint units.  The artifact is the template applied
\* to the context, so the context stands for its content.
RenderAggregate ==
    /\ pc = "RenderAggregate"
    /\ written' = Append(written, [path |-> "sensors.xacro", content |-> render_meta_data])
    /\ IF "sensor_unit.xacro.template" \notin template_directory
       THEN Fail("FileNotFoundError") /\ i' = i
       ELSE IF Len(render_meta_data.sensor_units) = 0
       THEN pc' = "Done" /\ error' = error /\ i' = i
       ELSE pc' = "LoadUnitCalibration" /\ error' = error /\ i' = 1
    /\ UNCHANGED << link_dicts, template_directory,
                    calibration_directory, calib, render_meta_data,
                    include_text, sensor_unit_calib, sensor_unit_render_meta_data,
                    loads, run, prev, entity_vars, calibration_vars >>

\* lines 457-463: load and parse the calibration of joint unit i
LoadUnitCalibration ==
    /\ pc = "LoadUnitCalibration"
    /\ LET sensor_unit == render_meta_data.sensor_units[i]
           path == sensor_unit_calib_path(sensor_unit)
           sensor_unit_calib_yaml == load_yaml(FileAt(path))
           c == IF sensor_unit_calib_yaml.ok
                THEN Calibration(sensor_unit_calib_yaml.content) ELSE Unset
       IN  /\ loads' = Append(loads, path)
           /\ sensor_unit_calib' = IF sensor_unit_calib_yaml.ok /\ c.ok THEN c
                                   ELSE sensor_unit_calib
           /\ IF ~sensor_unit_calib_yaml.ok THEN Fail(sensor_unit_calib_yaml.err)
              ELSE IF ~c.ok THEN Fail(c.err)
              ELSE pc' = "ClassifyUnit" /\ error' = error
    /\ UNCHANGED << link_dicts, template_directory,
                    calibration_directory, calib, render_meta_data,
                    include_text, i, sensor_unit_render_meta_data, written, run, prev,
                    entity_vars, calibration_vars >>

\* each unit starting from an include set of its own
ClassifyUnit_fresh_include_set ==
    /\ pc = "ClassifyUnit"
    /\ LET sensor_unit == render_meta_data.sensor_units[i]
           acc == ClassifyUnitLoop(sensor_unit_calib.transforms,
                      [ok |-> TRUE, include_text |-> {}, sensor_items |-> << >>])
       IN  /\ include_text' = acc.include_text
           /\ IF ~acc.ok
              THEN /\ Fail("KeyError")
                   /\ sensor_unit_render_meta_data' =
                        [unit_macro_name |-> sensor_unit.macro_name,
                         default_config_path |-> render_meta_data.default_config_path,
                         joint_unit_name |-> sensor_unit.name,
                         current_base_link |-> sensor_unit_calib.base_frame]
              ELSE /\ pc' = "RenderUnit"
                   /\ error' = error
                   /\ \E order \in ListOfSet(acc.include_text) :
                        sensor_unit_render_meta_data' =
                            [unit_macro_name |-> sensor_unit.macro_name,
                             default_config_path |-> render_meta_data.default_config_path,
                             joint_unit_name |-> sensor_unit.name,
                             current_base_link |-> sensor_unit_calib.base_frame,
                             isolated_sensors_includes |-> order,
                             isolated_sensors |-> acc.sensor_items]
    /\ UNCHANGED << link_dicts, template_directory,
                    calibration_directory, calib, render_meta_data,
                    i, sensor_unit_calib, written, loads, run, prev,
                    entity_vars, calibration_vars >>

\* lines 464-478: start the unit's rendering context (464-470), classify every
\* transform of unit i, adding to the same include set, and complete the
\* context; when line 476 raises, the context has the four keys of 464-470
ClassifyUnit ==
    /\ pc = "ClassifyUnit"
    /\ LET sensor_unit == render_meta_data.sensor_units[i]
           acc == ClassifyUnitLoop(sensor_unit_calib.transforms,
                      [ok |-> TRUE, include_text |-> include_text, sensor_items |-> << >>])
       IN  /\ include_text' = acc.include_text
           /\ IF ~acc.ok
              THEN /\ Fail("KeyError")
                   /\ sensor_unit_render_meta_data' =
                        [unit_macro_name |-> sensor_unit.macro_name,
                         default_config_path |-> render_meta_data.default_config_path,
                         joint_unit_name |-> sensor_unit.name,
                         current_base_link |-> sensor_unit_calib.base_frame]
              ELSE /\ pc' = "RenderUnit"
                   /\ error' = error
                   /\ \E order \in ListOfSet(acc.include_text) :
                        sensor_unit_render_meta_data' =
                            [unit_macro_name |-> sensor_unit.macro_name,
                             default_config_path |-> render_meta_data.default_config_path,
                             joint_unit_name |-> sensor_unit.name,
                             current_base_link |-> sensor_unit_calib.base_frame,
                             isolated_sensors_includes |-> order,
                             isolated_sensors |-> acc.sensor_items]
    /\ UNCHANGED << link_dicts, template_directory,
                    calibration_directory, calib, render_meta_data,
                    i, sensor_unit_calib, written, loads, run, prev,
                    entity_vars, calibration_vars >>

\* going on to the next unit with the artifact of this one still unwritten
RenderUnit_without_write ==
    /\ pc = "RenderUnit"
    /\ IF i = Len(render_meta_data.sensor_units)
       THEN pc' = "Done" /\ i' = i
       ELSE pc' = "LoadUnitCalibration" /\ i' = i + 1
    /\ UNCHANGED << link_dicts, template_directory,
                    calibration_directory, error, calib,
                    render_meta_data, include_text, sensor_unit_calib,
                    sensor_unit_render_meta_data, written, loads, run, prev,
                    entity_vars, calibration_vars >>

\* lines 480-485: render and write <name>.xacro, go on to the next unit
RenderUnit ==
    /\ pc = "RenderUnit"
    /\ written' = Append(written,
                     [path |-> render_meta_data.sensor_units[i].name \o ".xacro",
                      content |-> sensor_unit_render_meta_data])
    /\ IF i = Len(render_meta_data.sensor_units)
       THEN pc' = "Done" /\ i' = i
       ELSE pc' = "LoadUnitCalibration" /\ i' = i + 1
    /\ UNCHANGED << link_dicts, template_directory,
                    calibration_directory, error, calib,
                    render_meta_data, include_text, sensor_unit_calib,
                    sensor_unit_render_meta_data, loads, run, prev,
                    entity_vars, calibration_vars >>

Next ==
    \/ LoadMainCalibration
    \/ ClassifyAndPartition
    \/ RenderAggregate
    \/ LoadUnitCalibration
    \/ ClassifyUnit
    \/ RenderUnit

Spec == Init /\ [][Next]_vars

----------------------------------------------------------------------------
(* Two invocations of the compiler on the same directories                 *)

\* lines 488-507: the process ends and the script is invoked again with the
\* same four arguments; what the first invocation wrote is remembered
Rerun ==
    /\ pc \in {"Done", "Failed"}
    /\ run = 1
    /\ run' = 2
    /\ prev' = [pc |-> pc, error |-> error, written |-> written]
    /\ pc' = "LoadMainCalibration"
    /\ error' = ""
    /\ calib' = Unset
    /\ render_meta_data' = InitialRenderMetaData
    /\ include_text' = {}
    /\ i' = 0
    /\ sensor_unit_calib' = Unset
    /\ sensor_unit_render_meta_data' = Unset
    /\ written' = << >>
    /\ loads' = << >>
    /\ UNCHANGED << link_dicts, template_directory,
                    calibration_directory, entity_vars,
                    calibration_vars >>

NextTwice == Next \/ Rerun

SpecTwice == Init /\ [][NextTwice]_vars

----------------------------------------------------------------------------
(* Transformation construction and classification on their own             *)

IdleMain ==
    /\ link_dicts = link_dicts_literal
    /\ template_directory = {}
    /\ calibration_directory = [main |-> AbsentFile, units |-> << >>]
    /\ pc = "Idle"
    /\ error = ""
    /\ calib = Unset
    /\ render_meta_data = InitialRenderMetaData
    /\ include_text = {}
    /\ i = 0
    /\ sensor_unit_calib = Unset
    /\ sensor_unit_render_meta_data = Unset
    /\ written = << >>
    /\ loads = << >>
    /\ run = 1
    /\ prev = Unset

EntityChildFrames ==
    { "camera_front_base_link", "foo_sensor_base_link", "bar_link", "unknown_mount",
      "velodyne_top_lidar", "velodyne_lidar", "radar_cam_link", "sensor_kit_livox_link",
      "front_link_cam", "mid_link_mount", "x_link_base_link", "CAM_front", "imu_link",
      "gnss_link", "ars408_front", "pandar_40p_left_base_link", "pandar_qt_rear",
      "hesai_top_link", "hesai_front_link", "hesai_rear", "ca_linkm",
      "livox_front_left_link", "Velodyne_Top_base_link", "top_unit_link", "lidar_x" }

EntityTypes ==
    { "", "radar", "RADAR", "monocular_camera", "Monocular_Camera", "livox_horizon",
      "PANDAR_40P", "pandar_xt32", "pandar_qt128", "velodyne_128", "VLS128", "lidar",
      "units", "imu" }

EntityFrameIds == { "", "custom_frame" }

EntityOffsets ==
    { AllOffsets, AllOffsets \ {"yaw"}, AllOffsets \ {"x", "pitch"}, {} }

EntityBaseFrame == "base_link"

InitEntity ==
    /\ IdleMain
    /\ IdleCalibration
    /\ e_transformation \in { Entry(type, frame_id, has) :
                                type \in EntityTypes, frame_id \in EntityFrameIds,
                                has \in EntityOffsets }
    /\ e_child_frame \in EntityChildFrames
    /\ e_pc = "input"
    /\ e_transform = Unset
    /\ e_link_type = ""
    /\ e_sensor_item = ""

\* Transformation(transformation, base_frame, child_frame), line 174
ConstructTransformation ==
    /\ e_pc = "input"
    /\ e_transform' = Transformation(e_transformation, EntityBaseFrame, e_child_frame)
    /\ e_pc' = IF e_transform'.ok THEN "constructed" ELSE "raised"
    /\ UNCHANGED << main_vars, calibration_vars, e_transformation, e_child_frame,
                    e_link_type, e_sensor_item >>

\* obtain_link_type(transform), line 424
ClassifyTransformation ==
    /\ e_pc = "constructed"
    /\ e_link_type' = obtain_link_type(e_transform)
    /\ e_pc' = "classified"
    /\ UNCHANGED << main_vars, calibration_vars, e_transformation, e_child_frame,
                    e_transform, e_sensor_item >>

\* link_dicts[link_type]["string_api"](transform), lines 441 and 476; a joint unit
\* takes the other branch (line 425) and has no macro generated
GenerateSensorItem ==
    /\ e_pc = "classified"
    /\ e_link_type # "JOINT_UNITS"
    /\ e_sensor_item' = string_api(e_link_type, e_transform)
    /\ e_pc' = "generated"
    /\ UNCHANGED << main_vars, calibration_vars, e_transformation, e_child_frame,
                    e_transform, e_link_type >>

NextEntity ==
    \/ ConstructTransformation
    \/ ClassifyTransformation
    \/ GenerateSensorItem

SpecEntity == InitEntity /\ [][NextEntity]_vars

----------------------------------------------------------------------------
(* load_yaml and Calibration construction on their own                     *)

\* child entries: two well-formed, two lacking offsets, two under a key that
\* is not a str
CalibrationPool ==
    { Pair(StrKey("camera_front_base_link"), Entry("monocular_camera", "", AllOffsets)),
      Pair(StrKey("unknown_mount"), Entry("", "", AllOffsets)),
      Pair(StrKey("imu_link"), Entry("", "", AllOffsets \ {"yaw"})),
      Pair(StrKey("radar_front"), Entry("radar", "", AllOffsets \ {"x", "pitch"})),
      Pair(IntKey("7"), Entry("", "", AllOffsets)),
      Pair(IntKey("8"), Entry("", "", AllOffsets \ {"z"})) }

TopLevelValues ==
    { NotAMapping } \cup { Mapping(items) : items \in SeqsUpTo(CalibrationPool, MaxChildren) }

\* mappings with no, one, two and three top-level keys
RawCalibrations ==
    { << >> }
    \cup { << Pair(key, value) >> :
             key \in { StrKey("base_link"), StrKey("sensor_kit_base_link"), IntKey("7") },
             value \in TopLevelValues }
    \cup { << Pair(StrKey("base_link"), value), Pair(StrKey("odom"), Mapping(<< >>)) >> :
             value \in { NotAMapping, Mapping(<< >>),
                         Mapping(<< Pair(StrKey("unknown_mount"),
                                         Entry("", "", AllOffsets)) >>) } }
    \cup { << Pair(StrKey("base_link"), Mapping(<< >>)),
              Pair(StrKey("odom"), Mapping(<< >>)),
              Pair(StrKey("map"), NotAMapping) >> }

InitCalibration ==
    /\ IdleMain
    /\ IdleEntity
    /\ c_calibration \in NonDictFiles \cup { DictFile(raw) : raw \in RawCalibrations }
    /\ c_pc = "input"
    /\ c_result = Unset

\* calib_yaml = load_yaml(calibration_path), line 410
LoadYaml ==
    /\ c_pc = "input"
    /\ c_result' = load_yaml(c_calibration)
    /\ c_pc' = IF c_result'.ok THEN "loaded" ELSE "raised"
    /\ UNCHANGED << main_vars, entity_vars, c_calibration >>

\* calib = Calibration(calib_yaml), line 411
ConstructCalibration ==
    /\ c_pc = "loaded"
    /\ c_result' = Calibration(c_result.content)
    /\ c_pc' = IF c_result'.ok THEN "constructed" ELSE "rejected"
    /\ UNCHANGED << main_vars, entity_vars, c_calibration >>

NextCalibration == LoadYaml \/ ConstructCalibration

SpecCalibration == InitCalibration /\ [][NextCalibration]_vars

----------------------------------------------------------------------------
(* Properties                                                              *)

Range(q) == { q[k] : k \in 1..Len(q) }

Terminal == pc \in {"Done", "Failed"}

BothTemplates ==
    {"sensors.xacro.template", "sensor_unit.xacro.template"} \subseteq template_directory

\* C1: a run that ends in a fatal failure of a calibration source (absent or
\* malformed source, missing field, dispatch-table gap), both templates
\* being there, has written no artifact.
C1_OutputsAllOrNothing ==
    (pc = "Failed" /\ BothTemplates) => written = << >>

\* C2: when the second of two invocations on the same template and
\* calibration directories is done, the first was done too and wrote the
\* same artifacts, the include lists in the same order.
C2_Deterministic ==
    (run = 2 /\ pc = "Done") => (prev.pc = "Done" /\ prev.written = written)

\* C3: a declared type that equals a LinkType value case-insensitively
\* classifies as that member, whatever the child-frame name contains.
C3_ExplicitTypeAuthoritative ==
    e_pc = "classified" =>
        \A k \in 1..Len(LinkType) :
            (/\ e_transformation.type # ""
             /\ Lower(e_transformation.type) = Lower(LinkTypeValue(LinkType[k])))
            => e_link_type = LinkType[k]

C3_Witness ==
    /\ e_pc = "classified"
    /\ e_transformation.type = "RADAR"
    /\ Contains(e_child_frame, "cam")
    /\ e_link_type = "RADAR"

\* the ordered marker list of the heuristic: the markers of which one must
\* occur, a marker that must occur too ("" for none), and the category
MarkerTable ==
    << [any |-> {"cam"}, also |-> "", category |-> "CAMERA"],
       [any |-> {"imu"}, also |-> "", category |-> "IMU"],
       [any |-> {"gnss"}, also |-> "", category |-> "GNSS"],
       [any |-> {"livox"}, also |-> "", category |-> "LIVOX"],
       [any |-> {"velodyne"}, also |-> "top", category |-> "VLS128"],
       [any |-> {"velodyne"}, also |-> "", category |-> "VELODYNE16"],
       [any |-> {"radar", "ars"}, also |-> "", category |-> "RADAR"],
       [any |-> {"pandar_40p"}, also |-> "", category |-> "PANDAR_40P"],
       [any |-> {"pandar_qt"}, also |-> "", category |-> "PANDAR_QT"],
       [any |-> {"hesai_top"}, also |-> "", category |-> "PANDAR_OT128"],
       [any |-> {"hesai_front"}, also |-> "", category |-> "PANDAR_XT32"],
       [any |-> {"hesai"}, also |-> "", category |-> "PANDAR_XT32"] >>

MarkerRowMatches(row, s) ==
    /\ \E m \in row.any : Contains(s, m)
    /\ Contains(s, row.also)

\* the category of the first row of the marker list that matches s
FirstMarkerCategory(s) ==
    LET rows == { k \in 1..Len(MarkerTable) : MarkerRowMatches(MarkerTable[k], s) }
    IN  IF rows = {} THEN "JOINT_UNITS"
        ELSE MarkerTable[CHOOSE k \in rows : \A j \in rows : k <= j].category

NoExplicitMatch(type) ==
    \A k \in 1..Len(LinkType) : Lower(type) # Lower(LinkTypeValue(LinkType[k]))

\* C4: with no declared type, or one that matches no category, the category
\* is the first match of the marker list on the lower-cased child frame.
C4_HeuristicOnLowerCasedChildFrame ==
    (e_pc = "classified" /\ NoExplicitMatch(e_transformation.type))
        => e_link_type = FirstMarkerCategory(Lower(e_child_frame))

SensorFamilies == {"pandar", "livox", "camera", "vls", "vlp"}

\* C5: an empty frame_id becomes the derived name when the lower-cased type
\* contains pandar, livox, camera, vls or vlp, else the raw child frame; a
\* declared frame_id is kept.
C5_FrameIdDerivation ==
    e_pc \in {"constructed", "classified"} =>
        e_transform.frame_id =
            IF e_transformation.frame_id # "" THEN e_transformation.frame_id
            ELSE IF \E m \in SensorFamilies : Contains(Lower(e_transform.type), m)
                 THEN e_transform.name
                 ELSE e_child_frame

EndsWith(s, suffix) ==
    /\ Len(s) >= Len(suffix)
    /\ SubSeq(s, Len(s) - Len(suffix) + 1, Len(s)) = suffix

\* s without a trailing _base_link or _link
StripSuffix(s) ==
    IF EndsWith(s, "_base_link") THEN SubSeq(s, 1, Len(s) - Len("_base_link"))
    ELSE IF EndsWith(s, "_link") THEN SubSeq(s, 1, Len(s) - Len("_link"))
    ELSE s

\* C6: the derived name is the child frame with a trailing _base_link or
\* _link stripped; a frame that ends with neither is unchanged.
C6_NameIsSuffixStripped ==
    e_pc \in {"constructed", "classified"} => e_transform.name = StripSuffix(e_child_frame)

\* the raw mapping handed to Calibration in SpecCalibration
RawCalibration == c_calibration.content

CalibrationTried == c_pc \in {"constructed", "rejected"}

SingleBaseFrame(raw) ==
    /\ Len(raw) = 1
    /\ raw[1].key.isstr
    /\ raw[1].value.ismap

AllCarrySixOffsets(items) ==
    \A k \in 1..Len(items) : AllOffsets \subseteq items[k].value.has

AllChildKeysStrings(items) ==
    \A k \in 1..Len(items) : items[k].key.isstr

\* the Calibration built has one Transformation per child key, in order,
\* each under the single base frame
AcceptedAsDeclared(raw) ==
    /\ c_result.ok
    /\ c_result.base_frame = raw[1].key.s
    /\ Len(c_result.transforms) = Len(raw[1].value.items)
    /\ \A k \in 1..Len(raw[1].value.items) :
         /\ c_result.transforms[k].child_frame = raw[1].value.items[k].key.s
         /\ c_result.transforms[k].base_frame = raw[1].key.s

RejectedAsFormatError == ~c_result.ok /\ c_result.err = "AssertionError"

\* C7 as stated: every mapping with one string base frame whose child entries
\* all carry the six offsets is accepted.
C7_AsStated ==
    CalibrationTried =>
        /\ ~SingleBaseFrame(RawCalibration) => RejectedAsFormatError
        /\ (/\ SingleBaseFrame(RawCalibration)
            /\ AllCarrySixOffsets(RawCalibration[1].value.items))
           => AcceptedAsDeclared(RawCalibration)

\* the positions of the child entries that make Calibration raise: a key that
\* is not a string, or an entry that lacks an offset
Offending(items) ==
    { k \in 1..Len(items) :
        ~items[k].key.isstr \/ ~(AllOffsets \subseteq items[k].value.has) }

FirstOf(positions) == CHOOSE k \in positions : \A j \in positions : k <= j

\* C7, amended: a mapping that does not have exactly one string base-frame key
\* with a mapping under it is rejected with the format error; one that has, whose
\* child-frame keys are all strings and whose child entries all carry the six
\* offsets, is accepted with one Transformation per child key under the single
\* base frame; one whose first child entry, in declaration order, with a
\* non-string key or a missing offset has a non-string key is rejected with the
\* same format error.
C7_SingleBaseFrameRule ==
    CalibrationTried =>
        /\ ~SingleBaseFrame(RawCalibration) => RejectedAsFormatError
        /\ (/\ SingleBaseFrame(RawCalibration)
            /\ AllChildKeysStrings(RawCalibration[1].value.items)
            /\ AllCarrySixOffsets(RawCalibration[1].value.items))
           => AcceptedAsDeclared(RawCalibration)
        /\ (/\ SingleBaseFrame(RawCalibration)
            /\ Offending(RawCalibration[1].value.items) # {})
           => LET items == RawCalibration[1].value.items
                  first == FirstOf(Offending(items))
              IN  /\ ~c_result.ok
                  /\ ~items[first].key.isstr => RejectedAsFormatError

C7_Witness ==
    /\ c_pc = "constructed"
    /\ Len(RawCalibration[1].value.items) = MaxChildren
    /\ Len(c_result.transforms) = MaxChildren
    /\ c_result.base_frame = "sensor_kit_base_link"

\* the positions of the entries that lack an offset
Deficient(items) ==
    { k \in 1..Len(items) : ~(AllOffsets \subseteq items[k].value.has) }

\* C8 as stated: whenever a child entry lacks an offset, Calibration fails with
\* the missing-field error, which names a field absent from a deficient entry.
C8_AsStated ==
    (CalibrationTried /\ SingleBaseFrame(RawCalibration)) =>
        LET items == RawCalibration[1].value.items
            bad == Deficient(items)
        IN  bad # {} =>
              /\ ~c_result.ok
              /\ c_result.err = "KeyError"
              /\ \E k \in bad : c_result.key \in AllOffsets \ items[k].value.has

\* C8, amended: Transformation of an entry that lacks an offset fails with the
\* KeyError of a key absent from that entry; with such an entry no Calibration is
\* produced, however many other entries are well-formed; what comes out of
\* Calibration is the KeyError of the first deficient entry, naming a key absent
\* from it, when every child key up to and including that entry is a string, and
\* the format error of the non-string key otherwise.
C8_MissingFieldError ==
    (CalibrationTried /\ SingleBaseFrame(RawCalibration)) =>
        LET items == RawCalibration[1].value.items
            bad == Deficient(items)
        IN  /\ \A k \in bad :
                  LET t == Transformation(items[k].value, RawCalibration[1].key.s,
                                          items[k].key.s)
                  IN  /\ ~t.ok
                      /\ t.err = "KeyError"
                      /\ t.key \in AllOffsets \ items[k].value.has
            /\ bad # {} =>
                  LET first == FirstOf(bad)
                  IN  /\ ~c_result.ok
                      /\ IF \A j \in 1..first : items[j].key.isstr
                         THEN /\ c_result.err = "KeyError"
                              /\ c_result.key \in AllOffsets \ items[first].value.has
                         ELSE RejectedAsFormatError

C8_Witness ==
    /\ c_pc = "rejected"
    /\ c_result.err = "KeyError"
    /\ c_result.key = "yaw"
    /\ Len(RawCalibration[1].value.items) = MaxChildren
    /\ Deficient(RawCalibration[1].value.items) = {MaxChildren}

\* the transforms of the main calibration that are not joint units
IsolatedTransforms ==
    SelectSeq(calib.transforms, LAMBDA t : obtain_link_type(t) # "JOINT_UNITS")

\* the aggregate context holds one invocation per isolated transform, in
\* order, and its include list holds each of their includes exactly once
AggregateContent(context) ==
    /\ Len(context.isolated_sensors) = Len(IsolatedTransforms)
    /\ \A k \in 1..Len(IsolatedTransforms) :
         context.isolated_sensors[k] =
             string_api(obtain_link_type(IsolatedTransforms[k]), IsolatedTransforms[k])
    /\ Range(context.isolated_sensors_includes) =
         { including_file(obtain_link_type(IsolatedTransforms[k])) :
             k \in 1..Len(IsolatedTransforms) }
    /\ Len(context.isolated_sensors_includes) =
         Cardinality(Range(context.isolated_sensors_includes))
    /\ \A inc \in Range(context.isolated_sensors_includes) :
         /\ inc # including_file("JOINT_UNITS")
         /\ inc \notin Range(context.sensor_units_includes)

\* the child entries the main calibration file declares, in order
MainItems ==
    IF /\ calibration_directory.main.kind = "dict"
       /\ SingleBaseFrame(calibration_directory.main.content)
    THEN calibration_directory.main.content[1].value.items
    ELSE << >>

\* C9: when the aggregate template is rendered, and in the artifact written
\* from it, the isolated-sensor list holds one invocation per isolated
\* transform in the declaration order of the source, and the include list is
\* exactly the set of their includes; one camera child gives exactly the
\* camera include.
C9_AggregateContent ==
    /\ pc = "RenderAggregate" =>
         /\ AggregateContent(render_meta_data)
         /\ \A k \in 1..Len(calib.transforms) :
              calib.transforms[k].child_frame = MainItems[k].key.s
         /\ (Len(calib.transforms) = 1 /\ obtain_link_type(calib.transforms[1]) = "CAMERA")
            => render_meta_data.isolated_sensors_includes
                 = << "$(find camera_description)/urdf/monocular_camera.xacro" >>
    /\ Len(written) >= 1 =>
         /\ written[1].path = "sensors.xacro"
         /\ AggregateContent(written[1].content)

C9_Witness ==
    /\ pc = "RenderAggregate"
    /\ Len(render_meta_data.sensor_units) = 1
    /\ Len(render_meta_data.isolated_sensors) = 1
    /\ render_meta_data.isolated_sensors_includes
         = << "$(find camera_description)/urdf/monocular_camera.xacro" >>
    /\ calib.transforms[1].child_frame = "unknown_mount"

HeuristicMarkers ==
    { "cam", "imu", "gnss", "livox", "velodyne", "radar", "ars", "pandar_40p",
      "pandar_qt", "hesai_top", "hesai_front", "hesai" }

\* the main calibration was classified in this run
MainClassified ==
    pc \in {"RenderAggregate", "LoadUnitCalibration", "ClassifyUnit", "RenderUnit", "Done"}
    \/ (pc = "Failed" /\ Len(written) >= 1)

\* the child frame was given no type and its derived name has no marker
Unrecognised(item) ==
    LET name == TransformationName(item.key.s)
    IN  /\ item.value.type = ""
        /\ \A m \in HeuristicMarkers : ~Contains(name, m)

\* the child entries a main calibration can declare that are of that kind
UnrecognisedEntries == { item \in MainPool : Unrecognised(item) }

\* C10 as stated: every run that rendered the aggregate and ended has attempted
\* the load of <name>_calibration for every such child frame, and has failed
\* with FileNotFoundError when that source is absent.
C10_AsStated ==
    \A k \in 1..Len(MainItems) :
        LET path == TransformationName(MainItems[k].key.s) \o "_calibration.yaml"
        IN  (MainItems[k] \in UnrecognisedEntries /\ Terminal /\ MainClassified /\ BothTemplates) =>
                /\ path \in Range(loads)
                /\ FileAt(path).kind = "absent" =>
                      (pc = "Failed" /\ error = "FileNotFoundError")

\* C10, amended: a child frame of the main calibration with no declared type
\* whose derived name contains no marker is recorded as a joint unit, say the
\* j-th; the source <name>_calibration is the j-th unit source loaded, after the
\* aggregate and the artifacts of the units before it were written; a run that
\* ends with the unit template present and those artifacts written has attempted
\* the load, and a run that ends without the attempt has failed; when the source
\* is absent Done is never reached, and the attempt, once made, is the last load
\* of the run and ends it with FileNotFoundError.
C10_UnknownFrameIsJointUnit ==
    \A k \in 1..Len(MainItems) :
        LET name == TransformationName(MainItems[k].key.s)
            path == name \o "_calibration.yaml"
            units == render_meta_data.sensor_units
        IN  MainItems[k] \in UnrecognisedEntries =>
              /\ MainClassified =>
                   \E j \in 1..Len(units) :
                      /\ units[j].child_frame = MainItems[k].key.s
                      /\ units[j].name = name
                      /\ Len(loads) >= 1 + j =>
                            /\ loads[1 + j] = path
                            /\ Len(written) >= j
                            /\ written[1].path = "sensors.xacro"
                      /\ (/\ Terminal
                          /\ "sensor_unit.xacro.template" \in template_directory
                          /\ Len(written) >= j)
                         => Len(loads) >= 1 + j
                      /\ (Terminal /\ Len(loads) < 1 + j) => pc = "Failed"
                      /\ (FileAt(path).kind = "absent" /\ Len(loads) >= 1 + j) =>
                            /\ Len(loads) = 1 + j
                            /\ pc = "Failed"
                            /\ error = "FileNotFoundError"
              /\ FileAt(path).kind = "absent" => pc # "Done"

\* the second of two joint units has no calibration source: the first one was
\* loaded and written, and the load of the second ended the run
C10_Witness ==
    /\ pc = "Failed"
    /\ error = "FileNotFoundError"
    /\ Len(render_meta_data.sensor_units) = 2
    /\ Len(loads) = 3
    /\ loads[3] = "unknown_mount_calibration.yaml"
    /\ Len(written) = 2

\* the expression that defers an offset to the calibration data
DeferredLookup(base_frame, child_frame, field) ==
    "${calibration['" \o base_frame \o "']['" \o child_frame \o "']['" \o field \o "']}"

Attribute(attr, value) == attr \o "=" \o Q \o value \o Q

\* three values on three lines inside one attribute, as the nested origin has them
OriginTriple(attr, a, b, c) ==
    attr \o "=" \o Q \o a \o NL \o "            " \o b \o NL \o "            " \o c \o Q

NestedOriginTypes == {"VELODYNE16", "VLS128"}

\* C11: the macro generated for a transformation of a non-joint-unit category has
\* name = the frame identifier and parent = the base frame; each of the six offsets
\* is the deferred lookup keyed by base frame, raw child frame and field, and no
\* lookup keyed by the suffix-stripped name occurs; the two Velodyne categories have
\* the nested-origin shape, every other category the flat-attribute shape; camera
\* and IMU/GNSS macros carry their extra default attributes and no other macro does.
C11_GeneratedMacro ==
    e_pc = "generated" =>
        LET nested == e_link_type \in NestedOriginTypes
            value(f) == DeferredLookup(EntityBaseFrame, e_child_frame, f)
        IN  /\ e_link_type # "JOINT_UNITS"
            /\ Contains(e_sensor_item, Attribute("name", e_transform.frame_id))
            /\ Contains(e_sensor_item, Attribute("parent", EntityBaseFrame))
            /\ e_transform.name # e_child_frame =>
                  \A f \in AllOffsets :
                      ~Contains(e_sensor_item,
                                DeferredLookup(EntityBaseFrame, e_transform.name, f))
            /\ nested <=> Contains(e_sensor_item, "<origin")
            /\ nested =>
                  /\ Contains(e_sensor_item,
                              OriginTriple("xyz", value("x"), value("y"), value("z")))
                  /\ Contains(e_sensor_item,
                              OriginTriple("rpy", value("roll"), value("pitch"),
                                           value("yaw")))
            /\ ~nested =>
                  \A f \in AllOffsets :
                      Contains(e_sensor_item, Attribute(f, value(f)))
            /\ e_link_type = "CAMERA" <=> Contains(e_sensor_item, Attribute("fov", "1.3"))
            /\ e_link_type = "CAMERA" =>
                  /\ Contains(e_sensor_item, Attribute("fps", "30"))
                  /\ Contains(e_sensor_item, Attribute("width", "800"))
                  /\ Contains(e_sensor_item, Attribute("height", "400"))
            /\ e_link_type \in {"IMU", "GNSS"} <=>
                  Contains(e_sensor_item, Attribute("fps", "100"))

\* a Velodyne macro was generated for a child frame whose suffix was stripped and
\* whose frame identifier differs from the child frame
C11_Witness ==
    /\ e_pc = "generated"
    /\ e_link_type \in NestedOriginTypes
    /\ e_transform.name # e_child_frame
    /\ e_transform.frame_id # e_child_frame

\* the transforms of the main calibration that classify as joint units, in order
JointUnitTransforms ==
    SelectSeq(calib.transforms, LAMBDA t : obtain_link_type(t) = "JOINT_UNITS")

\* the distinct paths the run has written to
WrittenPaths == { written[k].path : k \in 1..Len(written) }

\* C12: a successful compile whose main calibration has N joint-unit child frames
\* has written the aggregate artifact and N distinct per-unit artifacts, the k-th
\* named after the k-th unit's derived name; no two joint-unit child frames have
\* written to the same artifact.
C12_OneArtifactPerJointUnit ==
    pc = "Done" =>
        LET N == Len(JointUnitTransforms)
        IN  /\ Len(written) = 1 + N
            /\ written[1].path = "sensors.xacro"
            /\ \A k \in 1..N : written[1 + k].path = JointUnitTransforms[k].name \o ".xacro"
            /\ Cardinality(WrittenPaths) = 1 + N
            /\ \A j, k \in 1..N : j # k => written[1 + j].path # written[1 + k].path

\* the keys of the table entry of a category
EntryKeys(link_type) == DOMAIN link_dicts[link_type]

\* C13: in every state of a compile the table has one entry per LinkType member;
\* the entry of every member except JOINT_UNITS has an include reference, which
\* takes no parameter, and a generation strategy, which is one of the three
\* generators; the JOINT_UNITS entry has the include-reference template with the
\* unit-name parameter and nothing else; no step of a compile changes the table.
C13_DispatchTableTotal ==
    /\ [](/\ DOMAIN link_dicts = Range(LinkType)
          /\ \A member \in Range(LinkType) \ {"JOINT_UNITS"} :
                /\ EntryKeys(member) = {"including_file", "string_api"}
                /\ Len(link_dicts[member].including_file) > 0
                /\ ~Contains(link_dicts[member].including_file, "{filename}")
                /\ link_dicts[member].string_api.func
                      \in {"base_string_func", "VLP16_func", "VLS128_func"}
          /\ EntryKeys("JOINT_UNITS") = {"including_file"}
          /\ link_dicts["JOINT_UNITS"].including_file = "{filename}.xacro")
    /\ [][link_dicts' = link_dicts]_vars

\* a compile that dispatched an isolated sensor and a joint unit through the
\* table, and a sensor of the unit after them, has ended
C13_Witness ==
    /\ pc = "Done"
    /\ Len(render_meta_data.sensor_units) >= 1
    /\ Len(render_meta_data.isolated_sensors) >= 1
    /\ Len(written) >= 2
    /\ Len(written[2].content.isolated_sensors) >= 1

\* the phases that may follow a phase; an exception ends the run in any phase
\* that loads, dispatches or opens a template
PhaseSuccessors(phase) ==
    CASE phase = "LoadMainCalibration"  -> {"ClassifyAndPartition", "Failed"}
      [] phase = "ClassifyAndPartition" -> {"RenderAggregate"}
      [] phase = "RenderAggregate"      -> {"LoadUnitCalibration", "Done", "Failed"}
      [] phase = "LoadUnitCalibration"  -> {"ClassifyUnit", "Failed"}
      [] phase = "ClassifyUnit"         -> {"RenderUnit", "Failed"}
      [] phase = "RenderUnit"           -> {"LoadUnitCalibration", "Done"}
      [] phase \in {"Done", "Failed"}   -> {}

\* what was loaded and written so far follows the declaration order of the units
LoadsAndWritesInOrder ==
    /\ Len(loads) >= 1 => loads[1] = "sensors_calibration.yaml"
    /\ Len(written) >= 1 => written[1].path = "sensors.xacro" /\ Len(loads) >= 1
    /\ \A k \in 2..Len(loads) :
          /\ calib.ok
          /\ k - 1 <= Len(JointUnitTransforms)
          /\ loads[k] = JointUnitTransforms[k - 1].name \o "_calibration.yaml"
          /\ Len(written) >= k - 1
    /\ \A k \in 2..Len(written) :
          /\ Len(loads) >= k
          /\ written[k].path = JointUnitTransforms[k - 1].name \o ".xacro"
    /\ pc = "Done" =>
          /\ Len(loads) = 1 + Len(JointUnitTransforms)
          /\ Len(written) = 1 + Len(JointUnitTransforms)

\* C14: the phases of a run follow one another in the order LoadMainCalibration,
\* ClassifyAndPartition, RenderAggregate, then LoadUnitCalibration, ClassifyUnit,
\* RenderUnit for each joint unit, then Done; the aggregate artifact is written
\* before any unit calibration is loaded, the units are loaded in the order their
\* child frames are declared, and the artifact of unit k is written before the
\* calibration of unit k+1 is loaded.
C14_OrchestratorOrdering ==
    /\ pc = "LoadMainCalibration"
    /\ []LoadsAndWritesInOrder
    /\ [][ /\ pc' # pc => pc' \in PhaseSuccessors(pc)
           /\ (pc = "RenderAggregate" /\ pc' = "LoadUnitCalibration") =>
                 (i' = 1 /\ Len(written') = 1)
           /\ (pc = "RenderUnit" /\ pc' = "LoadUnitCalibration") =>
                 (i' = i + 1 /\ Len(written') = 1 + i)
           /\ pc' = "Done" => Len(written') = 1 + Len(JointUnitTransforms) ]_vars

\* a run with two joint units of different names has ended
C14_Witness ==
    /\ pc = "Done"
    /\ Len(loads) = 3
    /\ loads[2] # loads[3]
    /\ Len(written) = 3

\* the main calibration was loaded and its transforms were classified
Partitioned == calib.ok /\ pc # "ClassifyAndPartition"

\* C15: once the main calibration is classified, the invocations in
\* isolated_sensors and the records in sensor_units together are as many as the
\* transforms, the former one per non-joint-unit transform and the latter one per
\* joint-unit transform, in order; the k-th record carries the base frame, the raw
\* child frame, the derived name and the macro name <name>_macro of the k-th joint
\* unit, and sensor_units_includes has <name>.xacro at position k; a joint unit
\* has added nothing to the isolated include list.
C15_Partition ==
    Partitioned =>
        LET units == render_meta_data.sensor_units
            includes == render_meta_data.sensor_units_includes
            sensors == render_meta_data.isolated_sensors
        IN  /\ Len(sensors) + Len(units) = Len(calib.transforms)
            /\ Len(sensors) = Len(IsolatedTransforms)
            /\ Len(units) = Len(JointUnitTransforms)
            /\ Len(includes) = Len(units)
            /\ \A k \in 1..Len(units) :
                  LET transform == JointUnitTransforms[k]
                  IN  /\ units[k].base_frame = calib.base_frame
                      /\ units[k].child_frame = transform.child_frame
                      /\ units[k].name = transform.name
                      /\ units[k].macro_name = units[k].name \o "_macro"
                      /\ includes[k] = units[k].name \o ".xacro"
            /\ Range(render_meta_data.isolated_sensors_includes) =
                  { including_file(obtain_link_type(IsolatedTransforms[k])) :
                      k \in 1..Len(IsolatedTransforms) }

\* a joint unit whose name differs from its child frame was recorded next to an
\* isolated sensor
C15_Witness ==
    /\ Partitioned
    /\ Len(render_meta_data.sensor_units) = 1
    /\ render_meta_data.sensor_units[1].child_frame = "top_unit_base_link"
    /\ render_meta_data.sensor_units[1].name = "top_unit"
    /\ Len(render_meta_data.isolated_sensors) = 1

\* the include references of the sensors a unit calibration file declares; none
\* where the file does not give a calibration
UnitFileIncludes ==
    [ file \in UnitFiles |->
        LET sensor_unit_calib_yaml == load_yaml(file)
            c == IF sensor_unit_calib_yaml.ok
                 THEN Calibration(sensor_unit_calib_yaml.content) ELSE Unset
        IN  IF c.ok
            THEN { including_file(obtain_link_type(c.transforms[n])) :
                     n \in 1..Len(c.transforms) }
            ELSE {} ]

\* the include references of the sensors of the k-th joint unit
UnitIncludes(k) ==
    UnitFileIncludes[FileAt(sensor_unit_calib_path(render_meta_data.sensor_units[k]))]

\* the include references of the isolated sensors of the main calibration
AggregateIncludes ==
    { including_file(obtain_link_type(IsolatedTransforms[n])) :
        n \in 1..Len(IsolatedTransforms) }

\* what the include list of the k-th unit is said to hold
AccumulatedIncludes(k) ==
    AggregateIncludes \cup UNION { UnitIncludes(j) : j \in 1..k }

\* C16: the include list handed to the render of unit k holds the includes of the
\* aggregate's isolated sensors, of the sensors of units 1..k-1 and of unit k's
\* own sensors, and nothing else, so it contains the aggregate's list and every
\* earlier unit's list; the aggregate's list holds the includes of the isolated
\* sensors only, whatever the units add later; the include set never shrinks.
C16_IncludeSetAccumulates ==
    /\ [](Len(written) >= 1 =>
            /\ Range(written[1].content.isolated_sensors_includes) = AggregateIncludes
            /\ \A k \in 1..(Len(written) - 1) :
                  /\ Range(written[1 + k].content.isolated_sensors_includes)
                        = AccumulatedIncludes(k)
                  /\ \A j \in 0..(k - 1) :
                        Range(written[1 + j].content.isolated_sensors_includes)
                            \subseteq Range(written[1 + k].content.isolated_sensors_includes))
    /\ [](pc = "RenderUnit" =>
            Range(sensor_unit_render_meta_data.isolated_sensors_includes)
                = AccumulatedIncludes(i))
    /\ [][include_text \subseteq include_text']_vars

\* the artifact of a unit was written with an include that none of the unit's own
\* sensors contributes, and with an include the aggregate's list does not have
C16_Witness ==
    /\ Len(written) >= 2
    /\ \E inc \in Range(written[2].content.isolated_sensors_includes) :
          inc \notin UnitIncludes(1)
    /\ \E inc \in Range(written[2].content.isolated_sensors_includes) :
          inc \notin Range(written[1].content.isolated_sensors_includes)

\* the joint-unit transforms of the calibration of the unit being processed
NestedJointUnits ==
    SelectSeq(sensor_unit_calib.transforms,
              LAMBDA t : obtain_link_type(t) = "JOINT_UNITS")

\* the calibration paths of the joint units of the main calibration
MainUnitPaths ==
    { sensor_unit_calib_path(render_meta_data.sensor_units[k]) :
        k \in 1..Len(render_meta_data.sensor_units) }

\* the run ended in the dispatch of a transform of unit i
DispatchGapFailure ==
    /\ pc = "Failed"
    /\ error = "KeyError"
    /\ i >= 1
    /\ sensor_unit_calib.ok
    /\ Len(loads) = 1 + i
    /\ Len(NestedJointUnits) > 0

\* the number of phases a run can still go through: three per joint unit not yet
\* finished, of which there are no more than the main file declares children
PhasesLeft ==
    CASE pc = "LoadMainCalibration"  -> 3 * Len(MainItems) + 3
      [] pc = "ClassifyAndPartition" -> 3 * Len(MainItems) + 2
      [] pc = "RenderAggregate"      -> 3 * Len(MainItems) + 1
      [] pc = "LoadUnitCalibration"  -> 3 * (Len(MainItems) - i) + 3
      [] pc = "ClassifyUnit"         -> 3 * (Len(MainItems) - i) + 2
      [] pc = "RenderUnit"           -> 3 * (Len(MainItems) - i) + 1
      [] Terminal                    -> 0

\* C17: a unit calibration with a transform that classifies as a joint unit ends
\* the run with the KeyError of the missing generation strategy in the step that
\* classifies the unit, with nothing loaded or written in that step; after it
\* nothing is loaded or written any more, so the enclosing unit's artifact and every
\* later unit are missing and no source named after the nested unit was loaded;
\* no run loads more than 1 + N sources, N the number of joint units of the main
\* calibration, and every step of a run brings its end nearer, so no run goes on
\* for ever.
C17_JointUnitsNeverRecurse ==
    /\ [][ (pc = "ClassifyUnit" /\ Len(NestedJointUnits) > 0) =>
             /\ pc' = "Failed"
             /\ error' = "KeyError"
             /\ written' = written
             /\ loads' = loads
             /\ i' = i ]_vars
    /\ [][ pc = "Failed" => UNCHANGED << pc, written, loads, i >> ]_vars
    /\ [](DispatchGapFailure =>
            /\ Len(written) = i
            /\ \A k \in 1..Len(written) :
                  written[k].path # render_meta_data.sensor_units[i].name \o ".xacro"
                  \/ \E j \in 1..(i - 1) :
                        render_meta_data.sensor_units[j].name
                            = render_meta_data.sensor_units[i].name
            /\ \A n \in 1..Len(NestedJointUnits) :
                  sensor_unit_calib_path(NestedJointUnits[n]) \notin MainUnitPaths
                      => sensor_unit_calib_path(NestedJointUnits[n]) \notin Range(loads))
    /\ [](Len(loads) <= 1 + (IF calib.ok THEN Len(JointUnitTransforms) ELSE 0))
    /\ [](PhasesLeft \in Nat)
    /\ [][PhasesLeft' < PhasesLeft]_vars

\* the first of two joint units had a nested joint unit: the run ended there, with
\* the aggregate artifact alone and the second unit never loaded
C17_Witness ==
    /\ DispatchGapFailure
    /\ i = 1
    /\ Len(render_meta_data.sensor_units) = 2
    /\ NestedJointUnits[1].child_frame = "inner_bracket"
    /\ Len(written) = 1
    /\ Len(loads) = 2

====
